---- MODULE Spec2Model ----
(***************************************************************************)
(* Model of the recipe API's data model (app/core/models.py) and of the    *)
(* recipe serializer (app/recipe/serializers.py).                          *)
(*                                                                         *)
(* The database is one record `db` of tables.  A request handler is a      *)
(* small program-counter machine over the database operations it issues    *)
(* (StepReq); a request served alone runs the machine to its end (Run).    *)
(***************************************************************************)
EXTENDS Integers, Sequences, FiniteSets, TLC

VARIABLES
    db,        \* the tables: User, Recipe, Tag, Ingredient and the two m2m tables
    procs,     \* per worker: the request being served and where its handler stands
    last,      \* the request completed last and its outcome
    response,  \* the representation returned by the last serialization
    served     \* the number of requests the workers have taken

vars == <<db, procs, last, response, served>>

(***************************************************************************)
(* Bounds of the model.                                                    *)
(***************************************************************************)
MaxRecipes == 2     \* recipe rows ever inserted
MaxLen == 2         \* length of a nested tag / ingredient list in a payload
MaxUsers == 2       \* user rows ever inserted (user specification)
NumVals == 1        \* distinct non-default values a stored column may hold
MaxRequests == 3    \* requests taken in a step-by-step run

TagNames == {"veg", "spicy"}
IngredientNames == {"salt"}
Uploads == {<<"pic", ".JPG">>}          \* uploaded file names, as (root, ext)
UUIDs == {"uuid1", "uuid2"}             \* outcomes of uuid.uuid4()
LanguageCodes == {"en", "ar", "fr"}     \* request.LANGUAGE_CODE
Workers == {1, 2}                       \* concurrently served requests

\* Python's None / SQL NULL, and the empty string of a blank text column.
Null == "None"
Blank == ""

NoDict == <<>>      \* the empty dict

(***************************************************************************)
(* Small helpers.                                                          *)
(***************************************************************************)
Range(s) == {s[i] : i \in DOMAIN s}

SeqsUpTo(S, n) == UNION {[1..k -> S] : k \in 0..n}

Max(S) == CHOOSE x \in S : \A y \in S : y <= x

\* the auto-increment primary key of a table whose rows are never deleted
NextId(table) == Cardinality(DOMAIN table) + 1

\* table with one more row
Insert(table, id, row) == [i \in DOMAIN table \cup {id} |-> IF i = id THEN row ELSE table[i]]

\* dict d without key k
Without(d, k) == [x \in DOMAIN d \ {k} |-> d[x]]

(***************************************************************************)
(* core/models.py: users.                                                  *)
(***************************************************************************)
\* An email is a sequence of characters (None when missing).
IsNone(email) == email = <<Null>>
NoneEmail == <<Null>>

Lower(c) == IF c = "A" THEN "a" ELSE IF c = "X" THEN "x" ELSE c

\* str.strip(): drop leading and trailing blanks
RECURSIVE LStrip(_)
LStrip(s) == IF s # <<>> /\ Head(s) = " " THEN LStrip(Tail(s)) ELSE s

RECURSIVE RStrip(_)
RStrip(s) ==
    IF s # <<>> /\ s[Len(s)] = " " THEN RStrip(SubSeq(s, 1, Len(s) - 1)) ELSE s

Strip(s) == LStrip(RStrip(s))

\* BaseUserManager.normalize_email: lowercase the part after the last "@" of the
\* stripped address; an address without "@" is returned as it is.
normalize_email(email) ==
    LET e == IF IsNone(email) THEN <<>> ELSE email
        s == Strip(e)
        ats == {i \in DOMAIN s : s[i] = "@"}
    IN  IF ats = {} THEN e
        ELSE LET k == Max(ats)
             IN  [i \in DOMAIN s |-> IF i > k THEN Lower(s[i]) ELSE s[i]]

\* `not email`
Falsy(email) == IsNone(email) \/ email = <<>>

\* the unique=True constraint of User.email
EmailTaken(User, email) == \E id \in DOMAIN User : User[id].email = email

create_user_NoCheck(User, email) ==
    IF EmailTaken(User, normalize_email(email))
    THEN [User |-> User, status |-> "IntegrityError", id |-> 0]
    ELSE [User |-> Insert(User, NextId(User),
                          [email |-> normalize_email(email), is_active |-> TRUE,
                           is_staff |-> FALSE, is_superuser |-> FALSE]),
          status |-> "ok", id |-> NextId(User)]

\* UserManager.create_user: the new table, the outcome and the new row's id
create_user(User, email) ==
    IF Falsy(email)
    THEN [User |-> User, status |-> "ValueError", id |-> 0]
    ELSE IF EmailTaken(User, normalize_email(email))
    THEN [User |-> User, status |-> "IntegrityError", id |-> 0]
    ELSE [User |-> Insert(User, NextId(User),
                          [email |-> normalize_email(email), is_active |-> TRUE,
                           is_staff |-> FALSE, is_superuser |-> FALSE]),
          status |-> "ok", id |-> NextId(User)]

\* UserManager.create_superuser
create_superuser(User, email) ==
    LET r == create_user(User, email)
    IN  IF r.status # "ok" THEN r
        ELSE [r EXCEPT !.User[r.id].is_staff = TRUE,
                       !.User[r.id].is_superuser = TRUE]

(***************************************************************************)
(* core/models.py: recipes, tags, ingredients.                             *)
(***************************************************************************)
\* the logical fields that are stored once per language
LocalFields == {"title", "description", "time_minutes", "price", "link"}

\* the column backing a logical field in a language
Column ==
    [title        |-> [en |-> "title_en",        ar |-> "title_ar"],
     description  |-> [en |-> "description_en",  ar |-> "description_ar"],
     time_minutes |-> [en |-> "time_minutes_en", ar |-> "time_minutes_ar"],
     price        |-> [en |-> "price_en",        ar |-> "price_ar"],
     link         |-> [en |-> "link_en",         ar |-> "link_ar"]]

LocalColumns == {Column[f][l] : f \in LocalFields, l \in {"en", "ar"}}

\* a column's value when the row is created without it: NULL for the columns
\* declared null=True, the empty string for the blank text columns
Default(col) ==
    IF col \in {"description_en", "description_ar", "link_en", "link_ar"}
    THEN Blank ELSE Null

NoImage == <<>>      \* image IS NULL

\* recipe_image_file_path: uploads/recipe/<uuid><ext>, ext being
\* os.path.splitext(filename)[1]
recipe_image_file_path(filename, uuid) == <<"uploads", "recipe", uuid, filename[2]>>

\* a Recipe row as Recipe.objects.create(user=...) without further arguments makes it
NewRecipe(user) ==
    [user |-> user,
     title_en |-> Default("title_en"), title_ar |-> Default("title_ar"),
     description_en |-> Default("description_en"),
     description_ar |-> Default("description_ar"),
     time_minutes_en |-> Default("time_minutes_en"),
     time_minutes_ar |-> Default("time_minutes_ar"),
     price_en |-> Default("price_en"), price_ar |-> Default("price_ar"),
     link_en |-> Default("link_en"), link_ar |-> Default("link_ar"),
     image |-> NoImage]

\* the attributes of a Recipe instance that are columns a payload can address
RecipeColumns == LocalColumns \cup {"image"}

\* the database right after the migrations
EmptyDb ==
    [User |-> <<>>, Recipe |-> <<>>, recipe_seq |-> 0,
     Tag |-> <<>>, Ingredient |-> <<>>,
     recipe_tags |-> <<>>, recipe_ingredients |-> <<>>]

\* the related objects of a recipe through a many-to-many table (a table of
\* (recipe, object) rows, here with the number of rows per pair)
Related(m2m, recipe) == {pair[2] : pair \in {q \in DOMAIN m2m : q[1] = recipe}}

(***************************************************************************)
(* recipe/serializers.py: the locale projection.                           *)
(***************************************************************************)
get_title_AlwaysEn(obj, LANGUAGE_CODE) == obj.title_en

get_title(obj, LANGUAGE_CODE) ==
    IF LANGUAGE_CODE = "ar" THEN obj.title_ar ELSE obj.title_en

get_time_minutes(obj, LANGUAGE_CODE) ==
    IF LANGUAGE_CODE = "ar" THEN obj.time_minutes_ar ELSE obj.time_minutes_en

get_price(obj, LANGUAGE_CODE) ==
    IF LANGUAGE_CODE = "ar" THEN obj.price_ar ELSE obj.price_en

get_link(obj, LANGUAGE_CODE) ==
    IF LANGUAGE_CODE = "ar" THEN obj.link_ar ELSE obj.link_en

get_description(obj, LANGUAGE_CODE) ==
    IF LANGUAGE_CODE = "ar" THEN obj.description_ar ELSE obj.description_en

\* the nested representation of the related rows: {id, name} each
Nested(table, ids) == {[id |-> i, name |-> table[i].name] : i \in ids}

\* RecipeSerializer / RecipeDetailSerializer: the representation of recipe `id`.
\* Only the detail serializer carries the description.
to_representation(d, id, LANGUAGE_CODE, detail) ==
    LET obj == d.Recipe[id]
    IN  [id |-> id,
         title |-> get_title(obj, LANGUAGE_CODE),
         time_minutes |-> get_time_minutes(obj, LANGUAGE_CODE),
         price |-> get_price(obj, LANGUAGE_CODE),
         link |-> get_link(obj, LANGUAGE_CODE),
         tags |-> Nested(d.Tag, Related(d.recipe_tags, id)),
         ingredients |-> Nested(d.Ingredient, Related(d.recipe_ingredients, id)),
         image |-> obj.image,
         detail |-> detail,
         description |-> IF detail THEN get_description(obj, LANGUAGE_CODE)
                         ELSE Blank]

(***************************************************************************)
(* recipe/serializers.py: what a payload may write.                        *)
(***************************************************************************)
\* RecipeSerializer.Meta.fields
MetaFields ==
    {"id", "title", "time_minutes", "price", "link", "tags", "ingredients", "image"}

\* the fields declared as SerializerMethodField, which only ever serialize
MethodFields == {"title", "time_minutes", "price", "link"}

\* RecipeSerializer.Meta.read_only_fields
read_only_fields == {"id"}

\* what is left of a payload after validation: the writable fields present in it
validated_data(data) ==
    [k \in DOMAIN data \cap (MetaFields \ (MethodFields \cup read_only_fields))
        |-> data[k]]

\* the value a column takes from an attribute set on the instance; an uploaded
\* image is stored under the path that upload_to generates
Stored(col, value, uuid) ==
    IF col = "image" THEN recipe_image_file_path(value, uuid) ELSE value

\* for attr, value in validated_data.items(): setattr(instance, attr, value)
\* as far as the row written by save() goes: an attribute that is no column of
\* Recipe is not written
SetAttrs(instance, attrs, uuid) ==
    [c \in DOMAIN instance |->
        IF c \in DOMAIN attrs \cap RecipeColumns
        THEN Stored(c, attrs[c], uuid) ELSE instance[c]]

(***************************************************************************)
(* The many-to-many manager and get_or_create.                             *)
(***************************************************************************)
Matches_None(table, user, name) == {}

Matches_AnyUser(table, user, name) == {id \in DOMAIN table : table[id].name = name}

\* the rows that Tag.objects.get(user=auth_user, name=...) selects
Matches(table, user, name) ==
    {id \in DOMAIN table : table[id].user = user /\ table[id].name = name}

add_Always(m2m, recipe, obj) ==
    [q \in DOMAIN m2m \cup {<<recipe, obj>>} |->
        IF q = <<recipe, obj>>
        THEN (IF q \in DOMAIN m2m THEN m2m[q] + 1 ELSE 1)
        ELSE m2m[q]]

\* recipe.tags.add(obj): a row (recipe, obj) is inserted unless there is one
add(m2m, recipe, obj) ==
    IF <<recipe, obj>> \in DOMAIN m2m THEN m2m
    ELSE [q \in DOMAIN m2m \cup {<<recipe, obj>>} |->
            IF q = <<recipe, obj>> THEN 1 ELSE m2m[q]]

clear_Nothing(m2m, recipe) == m2m

clear_All(m2m, recipe) == <<>>

\* instance.tags.clear(): the rows of the recipe are deleted
clear(m2m, recipe) == [q \in {x \in DOMAIN m2m : x[1] # recipe} |-> m2m[q]]

\* the table and the many-to-many table a nested list goes to
TableOf(ph) == IF ph = "tags" THEN "Tag" ELSE "Ingredient"
ThroughOf(ph) == IF ph = "tags" THEN "recipe_tags" ELSE "recipe_ingredients"

(***************************************************************************)
(* RecipeSerializer.create / update as a machine over database operations. *)
(* A context holds the handler's locals and its position:                  *)
(*   create  Recipe.objects.create, validated_data as keywords                       *)
(*   clear   instance.tags.clear() / instance.ingredients.clear()          *)
(*   get     the SELECT of get_or_create                                   *)
(*   insert  the INSERT of get_or_create                                   *)
(*   add     recipe.tags.add(obj) / recipe.ingredients.add(obj)            *)
(*   save    the setattr loop and instance.save()                          *)
(***************************************************************************)
Goto(ctx, pc) == [ctx EXCEPT !.pc = pc]

Done(d, ctx) == [db |-> d, ctx |-> [ctx EXCEPT !.pc = "done", !.status = "ok"]]

Raise(d, ctx, exception) ==
    [db |-> d, ctx |-> [ctx EXCEPT !.pc = "failed", !.status = exception]]

\* after the ingredients: create returns, update goes on to setattr and save
AfterIngredients(ctx) ==
    IF ctx.op = "create" THEN [ctx EXCEPT !.pc = "done", !.status = "ok"]
    ELSE Goto(ctx, "save")

\* _get_and_create_ingredients: the loop's entry
get_and_create_ingredients(ctx) ==
    IF ctx.ingredients = <<>> THEN AfterIngredients(ctx)
    ELSE [ctx EXCEPT !.pc = "get", !.ph = "ingredients", !.todo = ctx.ingredients]

\* after the tags: create goes to the ingredients, update only `if ingredients
\* is not None`
AfterTags(ctx) ==
    IF ctx.op = "create" THEN get_and_create_ingredients(ctx)
    ELSE IF ctx.hasIngredients
         THEN [ctx EXCEPT !.pc = "clear", !.ph = "ingredients"]
         ELSE Goto(ctx, "save")

\* _get_and_create_tags: the loop's entry
get_and_create_tags(ctx) ==
    IF ctx.tags = <<>> THEN AfterTags(ctx)
    ELSE [ctx EXCEPT !.pc = "get", !.ph = "tags", !.todo = ctx.tags]

AfterPhase(ctx) ==
    IF ctx.ph = "tags" THEN AfterTags(ctx) ELSE AfterIngredients(ctx)

\* the handler's locals on entry.  req: op, user (request.user), recipe (the
\* instance's id, update only), data (the payload), uuid (what uuid4() returns
\* if an image is stored)
StartCtx(d, req) ==
    LET vd == validated_data(req.data)
        hasTags == "tags" \in DOMAIN vd
        hasIngredients == "ingredients" \in DOMAIN vd
        ctx == [op |-> req.op, user |-> req.user, uuid |-> req.uuid,
                recipe |-> req.recipe, data |-> req.data,
                \* validated_data.pop('tags', ...), .pop('ingredients', ...)
                tags |-> IF hasTags THEN vd.tags ELSE <<>>,
                ingredients |-> IF hasIngredients THEN vd.ingredients ELSE <<>>,
                hasTags |-> hasTags, hasIngredients |-> hasIngredients,
                attrs |-> Without(Without(vd, "tags"), "ingredients"),
                instance |-> IF req.op = "update" THEN d.Recipe[req.recipe]
                             ELSE NewRecipe(req.user),
                pc |-> "create", ph |-> "tags", todo |-> <<>>, obj |-> 0,
                status |-> "running", before |-> d]
    IN  IF req.op = "create" THEN ctx
        ELSE IF hasTags THEN Goto(ctx, "clear")      \* if tags is not None
        ELSE AfterTags(ctx)

\* recipe = Recipe.objects.create, validated_data as keywords; the view saves with
\* user=request.user.  A keyword that is no field of Recipe is a TypeError.
Recipe_objects_create(d, ctx) ==
    IF ~(DOMAIN ctx.attrs \subseteq RecipeColumns)
    THEN Raise(d, ctx, "TypeError")
    ELSE LET id == d.recipe_seq + 1
             row == SetAttrs(NewRecipe(ctx.user), ctx.attrs, ctx.uuid)
         IN  [db |-> [d EXCEPT !.Recipe = Insert(@, id, row), !.recipe_seq = id],
              ctx |-> get_and_create_tags(
                          [ctx EXCEPT !.recipe = id, !.instance = row])]

\* instance.tags.clear() / instance.ingredients.clear(), then the loop
m2m_clear(d, ctx) ==
    [db |-> [d EXCEPT ![ThroughOf(ctx.ph)] = clear(@, ctx.recipe)],
     ctx |-> IF ctx.ph = "tags" THEN get_and_create_tags(ctx)
             ELSE get_and_create_ingredients(ctx)]

\* get_or_create of (auth_user, name), its lookup: one row is the object, no
\* row leads to the insert, several rows are MultipleObjectsReturned
get_or_create_get(d, ctx) ==
    LET found == Matches(d[TableOf(ctx.ph)], ctx.user, Head(ctx.todo).name)
    IN  IF found = {} THEN [db |-> d, ctx |-> Goto(ctx, "insert")]
        ELSE IF Cardinality(found) = 1
        THEN [db |-> d,
              ctx |-> [ctx EXCEPT !.pc = "add", !.obj = CHOOSE id \in found : TRUE]]
        ELSE Raise(d, ctx, "MultipleObjectsReturned")

\* get_or_create, its insert.  Neither Tag nor Ingredient declares a constraint
\* that could reject the row.
get_or_create_create(d, ctx) ==
    LET table == d[TableOf(ctx.ph)]
        id == NextId(table)
    IN  [db |-> [d EXCEPT ![TableOf(ctx.ph)] =
                    Insert(table, id, [name |-> Head(ctx.todo).name, user |-> ctx.user])],
         ctx |-> [ctx EXCEPT !.pc = "add", !.obj = id]]

\* recipe.tags.add(tag_obj) / recipe.ingredients.add(ingredient_obj), then the
\* next element of the list
m2m_add(d, ctx) ==
    LET rest == [ctx EXCEPT !.todo = Tail(ctx.todo)]
    IN  [db |-> [d EXCEPT ![ThroughOf(ctx.ph)] = add(@, ctx.recipe, ctx.obj)],
         ctx |-> IF rest.todo = <<>> THEN AfterPhase(rest) ELSE Goto(rest, "get")]

\* the setattr loop and instance.save(): the instance's columns are written
save(d, ctx) ==
    LET row == SetAttrs(ctx.instance, ctx.attrs, ctx.uuid)
    IN  Done([d EXCEPT !.Recipe = Insert(@, ctx.recipe, row)],
             [ctx EXCEPT !.instance = row])

\* one database operation of the handler
StepReq(d, ctx) ==
    CASE ctx.pc = "create" -> Recipe_objects_create(d, ctx)
      [] ctx.pc = "clear"  -> m2m_clear(d, ctx)
      [] ctx.pc = "get"    -> get_or_create_get(d, ctx)
      [] ctx.pc = "insert" -> get_or_create_create(d, ctx)
      [] ctx.pc = "add"    -> m2m_add(d, ctx)
      [] ctx.pc = "save"   -> save(d, ctx)

Running(ctx) == ctx.pc \in {"create", "clear", "get", "insert", "add", "save"}

\* the handler run to its end with no other request in between
RECURSIVE Run(_, _)
Run(d, ctx) ==
    IF ~Running(ctx) THEN [db |-> d, ctx |-> ctx]
    ELSE LET r == StepReq(d, ctx) IN Run(r.db, r.ctx)

\* RecipeSerializer.create(validated_data)
create(d, req) == Run(d, StartCtx(d, req))

\* RecipeSerializer.update(instance, validated_data)
update(d, req) == Run(d, StartCtx(d, req))

\* Recipe.delete(): the row goes and, with it, its rows in the two many-to-many
\* tables; Tag and Ingredient rows are not touched
delete(d, recipe) ==
    [d EXCEPT !.Recipe = [i \in DOMAIN d.Recipe \ {recipe} |-> d.Recipe[i]],
              !.recipe_tags = clear(@, recipe),
              !.recipe_ingredients = clear(@, recipe)]

(***************************************************************************)
(* The requests the model issues.                                          *)
(***************************************************************************)
\* nested lists of {name: ...} records
NameLists(Names) == SeqsUpTo({[name |-> n] : n \in Names}, MaxLen)

ScalarFields == {"title", "time_minutes", "price", "link", "image"}

\* the value a payload carries for a scalar field
PayloadValue(k) == IF k = "image" THEN CHOOSE f \in Uploads : TRUE ELSE "new"

ScalarPayloads == {[k \in S |-> PayloadValue(k)] : S \in SUBSET ScalarFields}

TagPart == {NoDict} \cup {"tags" :> l : l \in NameLists(TagNames)}

IngredientPart == {NoDict} \cup {"ingredients" :> l : l \in NameLists(IngredientNames)}

ListPayloads == {t @@ i : t \in TagPart, i \in IngredientPart}

\* the outcomes of uuid4() that matter to a payload: one when it stores no image
UUIDsFor(data) == IF "image" \in DOMAIN data THEN UUIDs ELSE {CHOOSE u \in UUIDs : TRUE}

\* the user whose requests are followed; the other user's rows are in the
\* database from the start
Requesters == {1}

Idle == [pc |-> "idle"]

\* no request yet.  `had` are the tags the addressed recipe had when the request came
NoRequest ==
    [op |-> "none", user |-> 0, recipe |-> 0, data |-> NoDict, status |-> "ok",
     had |-> {}]

NoResponse == [lang |-> "none"]

\* two accounts made with create_user
TwoUsers ==
    create_user(create_user(<<>>, <<"a", "@", "x">>).User, <<"b", "@", "x">>).User

\* the database when the run starts: both accounts exist and user 2 has
\* created one recipe with a tag and an ingredient
InitDb ==
    create([EmptyDb EXCEPT !.User = TwoUsers],
           [op |-> "create", user |-> 2, recipe |-> 0, uuid |-> "uuid1",
            data |-> [tags |-> <<[name |-> "veg"]>>,
                      ingredients |-> <<[name |-> "salt"]>>]]).db

Init ==
    /\ db = InitDb
    /\ procs = [p \in Workers |-> Idle]
    /\ last = NoRequest
    /\ response = NoResponse
    /\ served = 0

(***************************************************************************)
(* Requests served one after another.                                      *)
(***************************************************************************)
\* POST /recipes/ with a payload of P
CreateRecipe(P) ==
    \E u \in Requesters, data \in P :
        \E uuid \in UUIDsFor(data) :
            /\ db.recipe_seq < MaxRecipes
            /\ \E r \in {create(db, [op |-> "create", user |-> u, recipe |-> 0,
                                      data |-> data, uuid |-> uuid])} :
                   /\ db' = r.db
                   /\ last' = [op |-> "create", user |-> u, recipe |-> r.ctx.recipe,
                               data |-> data, status |-> r.ctx.status, had |-> {}]
            /\ UNCHANGED <<procs, response, served>>

\* the recipes a requester may address: the view looks the instance up among
\* the requesting user's recipes
Own == {id \in DOMAIN db.Recipe : db.Recipe[id].user \in Requesters}

\* PUT/PATCH /recipes/<id>/ with a payload of P, by the recipe's owner
UpdateRecipe(P) ==
    \E id \in Own, data \in P :
        \E uuid \in UUIDsFor(data) :
            \E r \in {update(db, [op |-> "update", user |-> db.Recipe[id].user,
                                  recipe |-> id, data |-> data, uuid |-> uuid])} :
                /\ db' = r.db
                /\ last' = [op |-> "update", user |-> db.Recipe[id].user,
                            recipe |-> id, data |-> data, status |-> r.ctx.status,
                            had |-> Related(db.recipe_tags, id)]
                /\ UNCHANGED <<procs, response, served>>

\* DELETE /recipes/<id>/ by the recipe's owner
DeleteRecipe ==
    \E id \in Own :
        /\ db' = delete(db, id)
        /\ last' = [op |-> "delete", user |-> db.Recipe[id].user, recipe |-> id,
                    data |-> NoDict, status |-> "ok",
                    had |-> Related(db.recipe_tags, id)]
        /\ UNCHANGED <<procs, response, served>>

Next == CreateRecipe(ListPayloads) \/ UpdateRecipe(ListPayloads) \/ DeleteRecipe

Spec == Init /\ [][Next]_vars

\* a database in which the requester already has a recipe with a tag
InitSharedDb ==
    create([EmptyDb EXCEPT !.User = TwoUsers],
           [op |-> "create", user |-> 1, recipe |-> 0, uuid |-> "uuid1",
            data |-> [tags |-> <<[name |-> "veg"]>>]]).db

InitShared ==
    /\ db = InitSharedDb
    /\ procs = [p \in Workers |-> Idle]
    /\ last = NoRequest
    /\ response = NoResponse
    /\ served = 0

\* the same requests with payloads that carry tags only, on several recipes of
\* the requester
NextShared == CreateRecipe(TagPart) \/ UpdateRecipe(TagPart) \/ DeleteRecipe

SpecShared == InitShared /\ [][NextShared]_vars

\* the same requests with payloads of scalar fields
NextScalars == CreateRecipe(ScalarPayloads) \/ UpdateRecipe(ScalarPayloads)

SpecScalars == Init /\ [][NextScalars]_vars

(***************************************************************************)
(* Requests served step by step: a worker takes a request, issues its      *)
(* database operations one at a time and answers.  Django runs each        *)
(* operation in its own transaction (autocommit); neither create nor       *)
(* update opens a transaction around its operations.                       *)
(***************************************************************************)
\* the payloads of the step-by-step runs
StepPayloads ==
    {t @@ i : t \in {NoDict, "tags" :> <<>>, "tags" :> <<[name |-> "veg"]>>,
                     "tags" :> <<[name |-> "spicy"]>>},
              i \in {NoDict, "ingredients" :> <<[name |-> "salt"]>>}}

\* the payloads of the concurrent runs
RacePayloads ==
    {"tags" :> <<[name |-> "spicy"]>>, "ingredients" :> <<[name |-> "salt"]>>}

\* worker p takes a request with a payload of P
Begin(p, P) ==
    /\ procs[p].pc = "idle"
    /\ served < MaxRequests
    /\ served' = served + 1
    /\ \E u \in Requesters, data \in P :
         \/ /\ db.recipe_seq < MaxRecipes
            /\ procs' = [procs EXCEPT ![p] =
                    StartCtx(db, [op |-> "create", user |-> u, recipe |-> 0,
                                  data |-> data, uuid |-> "uuid1"])]
         \/ \E id \in Own :
              /\ db.Recipe[id].user = u
              /\ procs' = [procs EXCEPT ![p] =
                    StartCtx(db, [op |-> "update", user |-> u, recipe |-> id,
                                  data |-> data, uuid |-> "uuid1"])]
    /\ UNCHANGED <<db, last, response>>

\* worker p's handler issues its next database operation
Step(p) ==
    /\ Running(procs[p])
    /\ LET r == StepReq(db, procs[p])
       IN  /\ db' = r.db
           /\ procs' = [procs EXCEPT ![p] = r.ctx]
    /\ UNCHANGED <<last, response, served>>

\* worker p's next database operation raises (the connection drops, the
\* statement times out): the operation has no effect and the handler ends
\* with the exception
DbError(p) ==
    /\ Running(procs[p])
    /\ procs' = [procs EXCEPT ![p] = Raise(db, procs[p], "DatabaseError").ctx]
    /\ UNCHANGED <<db, last, response, served>>

\* worker p answers
Finish(p) ==
    /\ procs[p].pc \in {"done", "failed"}
    /\ last' = [op |-> procs[p].op, user |-> procs[p].user,
                recipe |-> procs[p].recipe, data |-> procs[p].data,
                status |-> procs[p].status,
                had |-> Related(procs[p].before.recipe_tags, procs[p].recipe)]
    /\ procs' = [procs EXCEPT ![p] = Idle]
    /\ UNCHANGED <<db, response, served>>

\* one worker, whose database operations may fail
NextFail == Begin(1, StepPayloads) \/ Step(1) \/ DbError(1) \/ Finish(1)

SpecFail == Init /\ [][NextFail]_vars

\* several workers, whose database operations interleave
NextConc == \E p \in Workers : Begin(p, RacePayloads) \/ Step(p) \/ Finish(p)

SpecConc == Init /\ [][NextConc]_vars

(***************************************************************************)
(* Accounts.                                                               *)
(***************************************************************************)
\* the addresses tried: missing, empty, with and without "@", differing in
\* case and in surrounding blanks
EmailInputs ==
    {NoneEmail, <<>>, <<" ">>, <<"a", "@", "x">>, <<"a", "@", "X">>,
     <<"A", "@", "x">>, <<" ", "a", "@", "X">>, <<"a", "x">>}

InitUsers ==
    /\ db = EmptyDb
    /\ procs = [p \in Workers |-> Idle]
    /\ last = NoRequest
    /\ response = NoResponse
    /\ served = 0

\* User.objects.create_user(email, password)
CreateUser ==
    \E email \in EmailInputs :
        LET r == create_user(db.User, email)
        IN  /\ r.status = "ok" => Cardinality(DOMAIN db.User) < MaxUsers
            /\ db' = [db EXCEPT !.User = r.User]
            /\ last' = [op |-> "create_user", email |-> email, status |-> r.status]
            /\ UNCHANGED <<procs, response, served>>

\* User.objects.create_superuser(email, password)
CreateSuperuser ==
    \E email \in EmailInputs :
        LET r == create_superuser(db.User, email)
        IN  /\ r.status = "ok" => Cardinality(DOMAIN db.User) < MaxUsers
            /\ db' = [db EXCEPT !.User = r.User]
            /\ last' = [op |-> "create_superuser", email |-> email, status |-> r.status]
            /\ UNCHANGED <<procs, response, served>>

NextUsers == CreateUser \/ CreateSuperuser

SpecUsers == InitUsers /\ [][NextUsers]_vars

(***************************************************************************)
(* Serialization.                                                          *)
(***************************************************************************)
\* the values a stored column may hold
ColumnValues(col) == {Default(col)} \cup {ToString(i) : i \in 1..NumVals}

\* recipe rows with every combination of stored values
RecipeRows ==
    [user : {2},
     title_en : ColumnValues("title_en"), title_ar : ColumnValues("title_ar"),
     description_en : ColumnValues("description_en"),
     description_ar : ColumnValues("description_ar"),
     time_minutes_en : ColumnValues("time_minutes_en"),
     time_minutes_ar : ColumnValues("time_minutes_ar"),
     price_en : ColumnValues("price_en"), price_ar : ColumnValues("price_ar"),
     link_en : ColumnValues("link_en"), link_ar : ColumnValues("link_ar"),
     image : {NoImage}]

\* the stored recipe has been given its per-language values (the serializer
\* cannot write them; the admin site can)
InitProjection ==
    /\ \E row \in RecipeRows : db = [InitDb EXCEPT !.Recipe[1] = row]
    /\ procs = [p \in Workers |-> Idle]
    /\ last = NoRequest
    /\ response = NoResponse
    /\ served = 0

\* GET /recipes/ (detail = FALSE) or GET /recipes/<id>/ (detail = TRUE) in a
\* language
Serialize ==
    \E id \in DOMAIN db.Recipe, lang \in LanguageCodes, detail \in BOOLEAN :
        /\ response' = [lang |-> lang, recipe |-> id,
                        body |-> to_representation(db, id, lang, detail)]
        /\ UNCHANGED <<db, procs, last, served>>

NextProjection == Serialize

SpecProjection == InitProjection /\ [][NextProjection]_vars

(***************************************************************************)
(* Properties.                                                             *)
(***************************************************************************)
\* the rows of a table with a given owner and one of the given names
RowsNamed(table, user, names) ==
    {id \in DOMAIN table : table[id].user = user /\ table[id].name \in names}

\* the names a payload gives under a key, none when the key is absent
NamesIn(data, key) ==
    IF key \in DOMAIN data THEN {x.name : x \in Range(data[key])} ELSE {}

\* the rows of a recipe in a many-to-many table
RowsOf(m2m, recipe) == [q \in {x \in DOMAIN m2m : x[1] = recipe} |-> m2m[q]]

\* the table and the many-to-many table of a payload key
Kinds ==
    {[key |-> "tags", table |-> "Tag", m2m |-> "recipe_tags"],
     [key |-> "ingredients", table |-> "Ingredient", m2m |-> "recipe_ingredients"]}

\* C1: serializing a recipe returns, for title, time_minutes, price, link and
\* (in the detail view) description, the _ar column when the language code is
\* exactly "ar" and the _en column for every other code, and the
\* serialization writes no stored column.
C1_LocaleProjection ==
    [][response'.lang # "none" =>
        LET obj == db.Recipe[response'.recipe]
            l == IF response'.lang = "ar" THEN "ar" ELSE "en"
            body == response'.body
        IN  /\ body.title = obj[Column.title[l]]
            /\ body.time_minutes = obj[Column.time_minutes[l]]
            /\ body.price = obj[Column.price[l]]
            /\ body.link = obj[Column.link[l]]
            /\ body.detail => body.description = obj[Column.description[l]]
            /\ db' = db]_vars

\* C1 witness: an Arabic detail response carries the Arabic title and
\* description of a recipe whose English and Arabic values differ.
C1_Witness ==
    /\ response.lang = "ar"
    /\ db.Recipe[response.recipe].title_ar # db.Recipe[response.recipe].title_en
    /\ response.body.title = db.Recipe[response.recipe].title_ar
    /\ response.body.detail
    /\ db.Recipe[response.recipe].description_ar # db.Recipe[response.recipe].description_en

\* C2: after an update, per key (tags, ingredients): absent from the payload,
\* the recipe's associations are those before; an empty list, the recipe has
\* none; a non-empty list, the recipe's set is exactly the requesting user's
\* rows with the given names.
C2_UpdateThreeWays ==
    [][(last'.op = "update" /\ last'.status = "ok") =>
        \A k \in Kinds :
            LET r == last'.recipe
                data == last'.data
            IN  /\ k.key \notin DOMAIN data =>
                    RowsOf(db'[k.m2m], r) = RowsOf(db[k.m2m], r)
                /\ (k.key \in DOMAIN data /\ NamesIn(data, k.key) = {}) =>
                    Related(db'[k.m2m], r) = {}
                /\ (k.key \in DOMAIN data /\ NamesIn(data, k.key) # {}) =>
                    Related(db'[k.m2m], r) =
                        RowsNamed(db'[k.table], last'.user, NamesIn(data, k.key))]_vars

\* C2 witness: an update with tags = [spicy] and no ingredients key has
\* replaced a tag set that held another tag, and the recipe keeps an ingredient.
C2_Witness ==
    /\ last.op = "update" /\ last.status = "ok"
    /\ DOMAIN last.data = {"tags"}
    /\ NamesIn(last.data, "tags") = {"spicy"}
    /\ \E t \in last.had : db.Tag[t].name = "veg"
    /\ \A t \in Related(db.recipe_tags, last.recipe) : db.Tag[t].name = "spicy"
    /\ Related(db.recipe_tags, last.recipe) # {}
    /\ Related(db.recipe_ingredients, last.recipe) # {}

\* no two rows of the table have the same (user, name)
NoDuplicates(table) ==
    \A i, j \in DOMAIN table :
        (table[i].user = table[j].user /\ table[i].name = table[j].name) => i = j

\* C3: in a sequence of create and update requests served one after another,
\* a request whose names all exist for the user inserts no Tag / Ingredient
\* row, and no table ever holds two rows with the same (user, name).
C3_GetOrCreateIdempotent ==
    [][/\ NoDuplicates(db'.Tag)
       /\ NoDuplicates(db'.Ingredient)
       /\ last'.op \in {"create", "update"} =>
            \A k \in Kinds :
                (\A n \in NamesIn(last'.data, k.key) :
                    RowsNamed(db[k.table], last'.user, {n}) # {})
                => db'[k.table] = db[k.table]]_vars

\* C3 witness: the last update named again the two tags its recipe already
\* carried, and the user has one row for each.
C3_Witness ==
    /\ last.op = "update" /\ last.status = "ok"
    /\ Cardinality(NamesIn(last.data, "tags")) = 2
    /\ {db.Tag[t].name : t \in last.had} = NamesIn(last.data, "tags")
    /\ Cardinality(RowsNamed(db.Tag, last.user, TagNames)) = 2
    /\ Related(db.recipe_tags, last.recipe) = last.had

\* C7: a create whose list repeats a name the user has no row for leaves
\* exactly one row of that name owned by the requester, attached to the new
\* recipe exactly once; for tags and for ingredients.
C7_RepeatedNameOnce ==
    [][(last'.op = "create" /\ last'.status = "ok") =>
        \A k \in Kinds :
            k.key \in DOMAIN last'.data =>
                \A i, j \in DOMAIN last'.data[k.key] :
                    LET n == last'.data[k.key][i].name
                        rows == RowsNamed(db'[k.table], last'.user, {n})
                    IN  (/\ i # j
                         /\ last'.data[k.key][j].name = n
                         /\ RowsNamed(db[k.table], last'.user, {n}) = {})
                        => /\ Cardinality(rows) = 1
                           /\ \A t \in rows :
                                /\ <<last'.recipe, t>> \in DOMAIN db'[k.m2m]
                                /\ db'[k.m2m][<<last'.recipe, t>>] = 1]_vars

\* C7 witness: the requester's first request (recipe 2) was a create with
\* tags = [spicy, spicy]; one spicy row is theirs, attached once.
C7_Witness ==
    /\ last.op = "create" /\ last.status = "ok" /\ last.recipe = 2
    /\ "tags" \in DOMAIN last.data
    /\ last.data.tags = <<[name |-> "spicy"], [name |-> "spicy"]>>
    /\ Cardinality(RowsNamed(db.Tag, last.user, {"spicy"})) = 1
    /\ \A t \in RowsNamed(db.Tag, last.user, {"spicy"}) :
         /\ <<2, t>> \in DOMAIN db.recipe_tags
         /\ db.recipe_tags[<<2, t>>] = 1

\* C9: two recipes of one user that carry a tag of the same name carry the
\* same Tag row; and a request on one recipe (update, delete) deletes no Tag
\* row and leaves every other recipe's tag associations as they were.
C9_TagsShared ==
    [][/\ \A r1, r2 \in DOMAIN db'.Recipe :
            db'.Recipe[r1].user = db'.Recipe[r2].user =>
                \A t1 \in Related(db'.recipe_tags, r1),
                   t2 \in Related(db'.recipe_tags, r2) :
                    db'.Tag[t1].name = db'.Tag[t2].name => t1 = t2
       /\ \A t \in DOMAIN db.Tag : t \in DOMAIN db'.Tag /\ db'.Tag[t] = db.Tag[t]
       /\ \A r \in DOMAIN db.Recipe \ {last'.recipe} :
            RowsOf(db'.recipe_tags, r) = RowsOf(db.recipe_tags, r)]_vars

\* C9 witness: the last request (an update or a delete) took from its recipe
\* a tag that another recipe of the same user still carries.
C9_Witness ==
    /\ last.op \in {"update", "delete"}
    /\ \E t \in last.had :
         /\ t \notin Related(db.recipe_tags, last.recipe)
         /\ t \in DOMAIN db.Tag
         /\ \E r \in DOMAIN db.Recipe \ {last.recipe} :
              /\ db.Recipe[r].user = last.user
              /\ t \in Related(db.recipe_tags, r)

\* C10: every row a create or update attaches is owned by the authenticated
\* user; a name the requester has no row for gets a new row of their own even
\* if another user has a row of that name; no existing row changes.
C10_PerUserIsolation ==
    [][last'.op \in {"create", "update"} =>
        \A k \in Kinds :
            /\ k.key \in DOMAIN last'.data =>
                 \A t \in Related(db'[k.m2m], last'.recipe) :
                    db'[k.table][t].user = last'.user
            /\ \A t \in DOMAIN db[k.table] :
                 t \in DOMAIN db'[k.table] /\ db'[k.table][t] = db[k.table][t]
            /\ \A n \in NamesIn(last'.data, k.key) :
                 RowsNamed(db[k.table], last'.user, {n}) = {} =>
                    \E t \in DOMAIN db'[k.table] \ DOMAIN db[k.table] :
                        /\ db'[k.table][t] = [name |-> n, user |-> last'.user]
                        /\ t \in Related(db'[k.m2m], last'.recipe)]_vars

\* C10 witness: user 2 owns a veg row and the requester, having asked for
\* veg, is attached to a veg row of their own.
C10_Witness ==
    /\ last.op \in {"create", "update"} /\ last.status = "ok"
    /\ "veg" \in NamesIn(last.data, "tags")
    /\ RowsNamed(db.Tag, 2, {"veg"}) # {}
    /\ last.user # 2
    /\ \E t \in Related(db.recipe_tags, last.recipe) :
         db.Tag[t] = [name |-> "veg", user |-> last.user]

\* C4: under concurrent requests of one user that carry the same new name,
\* the tables end with one row per (user, name).
C4_UniqueUnderConcurrency ==
    /\ NoDuplicates(db.Tag)
    /\ NoDuplicates(db.Ingredient)

\* C5: a create or update that fails at any of its steps leaves the database
\* as it was when the request came.
C5_AtomicOnFailure ==
    \A p \in Workers : procs[p].pc = "failed" => db = procs[p].before

\* C6: an update overwrites the stored column of every scalar field its
\* payload carries (for a per-language field, one of its two columns) and
\* leaves the columns of the fields it omits unchanged.
C6_UpdateOverwritesScalars ==
    [][(last'.op = "update" /\ last'.status = "ok") =>
        LET old == db.Recipe[last'.recipe]
            new == db'.Recipe[last'.recipe]
            data == last'.data
        IN  /\ \A f \in ScalarFields \cap LocalFields :
                IF f \in DOMAIN data
                THEN new[Column[f].en] = data[f] \/ new[Column[f].ar] = data[f]
                ELSE /\ new[Column[f].en] = old[Column[f].en]
                     /\ new[Column[f].ar] = old[Column[f].ar]
            /\ IF "image" \in DOMAIN data
               THEN \E u \in UUIDs : new.image = <<"uploads", "recipe", u, data.image[2]>>
               ELSE new.image = old.image]_vars

\* no row of the user table has an empty email
NoEmptyEmail(User) == \A id \in DOMAIN User : User[id].email # <<>>

\* no two rows of the user table have the same email
UniqueEmails(User) ==
    \A i, j \in DOMAIN User : User[i].email = User[j].email => i = j

\* C8: create_user / create_superuser with an empty or missing email raises
\* ValueError, with an email that normalizes to a stored one is rejected by the
\* unique constraint, a failed call leaves the user table as it was, and the
\* table never holds an empty email or the same email twice.
C8_UserCreation ==
    [][/\ NoEmptyEmail(db'.User)
       /\ UniqueEmails(db'.User)
       /\ last'.op \in {"create_user", "create_superuser"} =>
            /\ (last'.email = <<>> \/ last'.email = NoneEmail)
                    => last'.status = "ValueError"
            /\ (/\ last'.email # <<>> /\ last'.email # NoneEmail
                /\ \E id \in DOMAIN db.User :
                     db.User[id].email = normalize_email(last'.email))
                    => last'.status = "IntegrityError"
            /\ last'.status # "ok" => db'.User = db.User
            /\ last'.status = "ok" =>
                 \E id \in DOMAIN db'.User \ DOMAIN db.User :
                    db'.User[id].email = normalize_email(last'.email)]_vars

\* C8 witness: an address that differs from a stored one only in the case of
\* its domain was rejected by the unique constraint, after an empty address
\* could not have been stored.
C8_Witness ==
    /\ last.op = "create_user"
    /\ last.email = <<"a", "@", "X">>
    /\ last.status = "IntegrityError"
    /\ \E id \in DOMAIN db.User : db.User[id].email = <<"a", "@", "x">>

====
